---- MODULE Spec2Model ----
(***************************************************************************)
(* A model of the exceptiongroup package: the ExceptionGroup type          *)
(* (exceptiongroup/__init__.py), the recursive split, the HandlerChain     *)
(* context manager and the Catcher context manager returned by catch       *)
(* (exceptiongroup/_tools.py).                                             *)
(*                                                                         *)
(* Python objects live in a heap: h.objs is the sequence of exception      *)
(* objects (an object's identity is its index), h.lists the sequence of    *)
(* list objects (the exceptions and sources attributes of a group hold     *)
(* list identities).  Operators that model Python code take a heap and     *)
(* return a record holding the heap they leave behind.                     *)
(***************************************************************************)
EXTENDS Integers, Sequences, FiniteSets, TLC

\* Python's None, as an object reference and as a list reference.
None == 0

-----------------------------------------------------------------------------
(* Bounds of the model. *)

\* Largest number of nodes (leaves and groups) of an error given to split.
MaxNodes == 4
\* Largest number of nodes of an error raised inside a guarded block.
MaxRaised == 3
\* Largest number of exception types registered on one HandlerChain.
MaxHandlers == 2
\* Largest length of the exceptions and sources given to the constructor.
MaxItems == 2
\* Largest number of nodes of an error raised inside a block guarded by a
\* chain that guarded a block before.
MaxReused == 2

-----------------------------------------------------------------------------
(* Classes and matchers. *)

\* The leaf exception classes of the model, all subclasses of Exception.
LeafClasses == {"ValueError", "RuntimeError", "TypeError", "AttributeError"}

\* issubclass(c, d) for the classes of the model.  ExceptionGroup derives
\* from BaseException directly.
IsSubclass(c, d) ==
    \/ c = d
    \/ d = "BaseException"
    \/ d = "Exception" /\ c \in LeafClasses

\* An exc_type argument: one class, or a tuple of classes.
TypeOf(c) == [form |-> "type", classes |-> <<c>>]
TupleOf(cs) == [form |-> "tuple", classes |-> cs]

\* The exc_type arguments the model draws from.
ExcTypes ==
    {TypeOf("ValueError"), TypeOf("RuntimeError"), TypeOf("Exception"),
     TypeOf("BaseException"), TupleOf(<<"ValueError", "RuntimeError">>)}

\* The match arguments: None, or the predicate of test_split_with_predicate.
Matches == {"None", "not_skip"}

-----------------------------------------------------------------------------
(* The heap. *)

\* A freshly constructed BaseException: no context, no cause, no traceback.
NewObj(kind, class, message) ==
    [kind |-> kind, class |-> class, message |-> message,
     exceptions |-> None, sources |-> None,
     context |-> None, cause |-> None, suppress |-> FALSE,
     traceback |-> <<>>]

EmptyHeap == [objs |-> <<>>, lists |-> <<>>]

Alloc(h, o) == [h EXCEPT !.objs = Append(@, o)]
LastObj(h) == Len(h.objs)
AllocList(h, items) == [h EXCEPT !.lists = Append(@, items)]
LastList(h) == Len(h.lists)

\* IsException as it would be if only None were told apart.
IsExceptionNotNone(h, x) == x # None

\* isinstance(x, BaseException): None and non-exception objects are not.
IsException(h, x) == x # None /\ h.objs[x].kind \in {"leaf", "group"}
\* isinstance(x, ExceptionGroup)
IsGroup(h, x) == x # None /\ h.objs[x].kind = "group"

\* The items of the list objects a group holds.
Exceptions(h, g) == h.lists[h.objs[g].exceptions]
Sources(h, g) == h.lists[h.objs[g].sources]

\* str(exc): BaseException.__str__ of an exception built with one argument
\* is that argument; ExceptionGroup passes its message to super().__init__.
Str(h, x) == h.objs[x].message

\* Assigning __cause__ goes through the attribute's setter, which also sets
\* __suppress_context__ to True (whatever the value assigned).
SetCause(h, x, c) ==
    [h EXCEPT !.objs[x].cause = c, !.objs[x].suppress = TRUE]

\* g.exceptions = items, g.sources = items: the attribute is bound to a
\* new list object.
SetExceptions(h, g, items) ==
    [h EXCEPT !.lists = Append(@, items),
              !.objs[g].exceptions = Len(h.lists) + 1]
SetSources(h, g, items) ==
    [h EXCEPT !.lists = Append(@, items),
              !.objs[g].sources = Len(h.lists) + 1]

-----------------------------------------------------------------------------
(* ExceptionGroup *)

\* Does the list of items hold an object that is no exception?
HasNonException(h, items) ==
    \E i \in 1..Len(items) : ~IsException(h, items[i])

\* GroupInitBody as it would be without the check of the lengths.
GroupInitBodyNoLengthCheck(h, exceptions, sources) ==
    IF HasNonException(h, exceptions)
    THEN [h |-> SetExceptions(h, LastObj(h), exceptions), obj |-> None,
          raised |-> "TypeError"]
    ELSE [h |-> SetSources(SetExceptions(h, LastObj(h), exceptions),
                           LastObj(h), sources),
          obj |-> LastObj(h), raised |-> ""]

\* The body of ExceptionGroup.__init__ on the heap h whose last object is
\* self: exceptions is copied into a new list and checked (TypeError), then
\* sources is copied and its length checked (ValueError).  Returns the
\* heap, the object built (None: none) and the error raised ("": none).
GroupInitBody(h, exceptions, sources) ==
    IF HasNonException(h, exceptions)
    THEN [h |-> SetExceptions(h, LastObj(h), exceptions), obj |-> None,
          raised |-> "TypeError"]
    ELSE [h |-> SetSources(SetExceptions(h, LastObj(h), exceptions),
                           LastObj(h), sources),
          obj |-> IF Len(sources) # Len(exceptions) THEN None ELSE LastObj(h),
          raised |-> IF Len(sources) # Len(exceptions) THEN "ValueError"
                     ELSE ""]

\* ExceptionGroup(message, exceptions, sources)
ExceptionGroupInit(h, message, exceptions, sources) ==
    GroupInitBody(Alloc(h, NewObj("group", "ExceptionGroup", message)),
                  exceptions, sources)

\* Lines 50-53 of __copy__: __traceback__, __context__ and __cause__ of
\* self (the object src) are assigned onto the new group r.obj.
CopyAttrs(r, src) ==
    [h |-> SetCause([r.h EXCEPT !.objs[r.obj].traceback = src.traceback,
                               !.objs[r.obj].context = src.context],
                    r.obj, src.cause),
     obj |-> r.obj]

\* ExceptionGroup.__copy__: a new group built by the constructor from the
\* message, exceptions and sources of self, onto which the attributes are
\* assigned.
Copy(h, self) ==
    CopyAttrs(ExceptionGroupInit(h, h.objs[self].message,
                                 Exceptions(h, self), Sources(h, self)),
              h.objs[self])

-----------------------------------------------------------------------------
(* split *)

\* match(exc) for the predicates of the model.
CallMatch(match, h, exc) ==
    IF match = "not_skip" THEN Str(h, exc) # "skip" ELSE TRUE

\* isinstance(exc, exc_type) for a leaf exc and a class or tuple of classes.
IsInstance(h, exc, exc_type) ==
    \E i \in 1..Len(exc_type.classes) :
        IsSubclass(h.objs[exc].class, exc_type.classes[i])

\* LeafMatches as it would be if split forgot its match argument.
LeafMatchesNoPredicate(h, exc_type, exc, match) ==
    IsInstance(h, exc, exc_type)

\* The test of the leaf branch of split.
LeafMatches(h, exc_type, exc, match) ==
    IsInstance(h, exc, exc_type) /\ (match = "None" \/ CallMatch(match, h, exc))

Min(a, b) == IF a < b THEN a ELSE b

\* Lines 49-50 and 52-53 of split: the exceptions and sources of the copy
\* c.obj are rebound to the new lists items and notes.
Rebind(c, items, notes) ==
    [h |-> SetSources(SetExceptions(c.h, c.obj, items), c.obj, notes),
     obj |-> c.obj]

\* CloneWith as it would be if the copy shared the lists of exc and split
\* filled them in place.
CloneWithAliased(h, exc, items, notes) ==
    [h |-> [Alloc(h, h.objs[exc])
               EXCEPT !.lists[h.objs[exc].exceptions] = items,
                      !.lists[h.objs[exc].sources] = notes],
     obj |-> Len(h.objs) + 1]

\* Lines 48-50 and 51-53 of split: a copy of exc holding items and notes.
CloneWith(h, exc, items, notes) == Rebind(Copy(h, exc), items, notes)

\* ClonePair as it would be if split returned the rest clone first.
ClonePairSwapped(c1, c2) ==
    [h |-> c2.h, matched |-> c2.obj, rest |-> c1.obj, raised |-> ""]

\* Line 54 of split: the pair of the two clones.
ClonePair(c1, c2) ==
    [h |-> c2.h, matched |-> c1.obj, rest |-> c2.obj, raised |-> ""]

\* Lines 51-54 of split, once the matched clone c1 is built.
RestClone(c1, acc, exc) ==
    ClonePair(c1, CloneWith(c1.h, exc, acc.rests, acc.rest_notes))

\* Lines 43-54: what split returns for the group exc once its loop has
\* filled the four lists of acc: exc itself when one side is empty and the
\* other is not, two clones otherwise.
SplitGroupResult(acc, exc) ==
    IF acc.raised # ""
    THEN [h |-> acc.h, matched |-> None, rest |-> None, raised |-> acc.raised]
    ELSE IF acc.matches # <<>> /\ acc.rests = <<>>
    THEN [h |-> acc.h, matched |-> exc, rest |-> None, raised |-> ""]
    ELSE IF acc.rests # <<>> /\ acc.matches = <<>>
    THEN [h |-> acc.h, matched |-> None, rest |-> exc, raised |-> ""]
    ELSE RestClone(CloneWith(acc.h, exc, acc.matches, acc.match_notes),
                   acc, exc)

\* Collect as it would be if the notes were numbered anew.
CollectRenumbered(acc, r, note) ==
    [h |-> r.h, raised |-> r.raised,
     matches |-> IF r.matched # None THEN Append(acc.matches, r.matched)
                 ELSE acc.matches,
     match_notes |-> IF r.matched # None
                     THEN Append(acc.match_notes,
                                 <<"s1", "s2", "s3", "s4", "s5", "s6", "s7",
                                   "s8">>[Len(acc.matches) + 1])
                     ELSE acc.match_notes,
     rests |-> IF r.rest # None THEN Append(acc.rests, r.rest)
               ELSE acc.rests,
     rest_notes |-> IF r.rest # None
                    THEN Append(acc.rest_notes,
                                <<"s1", "s2", "s3", "s4", "s5", "s6", "s7",
                                  "s8">>[Len(acc.rests) + 1])
                    ELSE acc.rest_notes]

\* Lines 36-42: the result r of the recursive call on one (subexc, note)
\* is added to the lists of acc.
Collect(acc, r, note) ==
    [h |-> r.h, raised |-> r.raised,
     matches |-> IF r.matched # None THEN Append(acc.matches, r.matched)
                 ELSE acc.matches,
     match_notes |-> IF r.matched # None THEN Append(acc.match_notes, note)
                     ELSE acc.match_notes,
     rests |-> IF r.rest # None THEN Append(acc.rests, r.rest)
               ELSE acc.rests,
     rest_notes |-> IF r.rest # None THEN Append(acc.rest_notes, note)
                    ELSE acc.rest_notes]

RECURSIVE split(_, _, _, _)
RECURSIVE SplitLoop(_, _, _, _, _, _)

\* split(exc_type, exc, match=match) on heap h.  Returns the heap left
\* behind, the pair (matched, rest) and the error raised ("" if none).
split(h, exc_type, exc, match) ==
    IF ~IsException(h, exc)
    THEN [h |-> h, matched |-> None, rest |-> None, raised |-> "TypeError"]
    ELSE IF IsGroup(h, exc)
    THEN SplitGroupResult(
            SplitLoop(exc_type, match, exc, 1,
                [h |-> h, raised |-> "", matches |-> <<>>,
                 match_notes |-> <<>>, rests |-> <<>>, rest_notes |-> <<>>],
                Min(Len(Exceptions(h, exc)), Len(Sources(h, exc)))),
            exc)
    ELSE IF LeafMatches(h, exc_type, exc, match)
         THEN [h |-> h, matched |-> exc, rest |-> None, raised |-> ""]
         ELSE [h |-> h, matched |-> None, rest |-> exc, raised |-> ""]

\* The for loop of split over zip(exc.exceptions, exc.sources), from the
\* i-th pair on; n is the length of the zip.
SplitLoop(exc_type, match, exc, i, acc, n) ==
    IF i > n \/ acc.raised # "" THEN acc
    ELSE SplitLoop(exc_type, match, exc, i + 1,
            Collect(acc,
                    split(acc.h, exc_type, Exceptions(acc.h, exc)[i], match),
                    Sources(acc.h, exc)[i]),
            n)

\* The text of the message of lines 26-29, followed by a single quote: a
\* string of TLA+ holds a backquote only when a single quote comes after it.
SplitErrorText == "Argument `exc` should be an instance of BaseException.'"

\* The message of the TypeError of lines 26-29: the text, the single quote
\* at its end cut off.
SplitErrorMessage == SubSeq(SplitErrorText, 1, Len(SplitErrorText) - 1)

-----------------------------------------------------------------------------
(* Raising *)

RECURSIVE BreakCycle(_, _, _, _)
\* Before chaining x onto the exception o in flight, the interpreter walks
\* the context chain of o and cuts the link of the first exception whose
\* context is x, so that no cycle arises.
BreakCycle(h, o, x, fuel) ==
    IF o = None \/ fuel = 0 THEN h
    ELSE IF h.objs[o].context = x THEN [h EXCEPT !.objs[o].context = None]
    ELSE BreakCycle(h, h.objs[o].context, x, fuel - 1)

\* `raise x` in the function named frame while inflight is being handled
\* (None: nothing is): x gets inflight as its __context__ unless it is
\* inflight itself, and its __traceback__ grows by the entry of the frame.
Raise(h, x, inflight, frame) ==
    IF inflight # None /\ inflight # x
    THEN [BreakCycle(h, inflight, x, Len(h.objs))
              EXCEPT !.objs[x].context = inflight,
                     !.objs[x].traceback = Append(@, frame)]
    ELSE [h EXCEPT !.objs[x].traceback = Append(@, frame)]

\* A bare `raise` in the function named frame: the exception being handled
\* is raised again as it is; the frame that executes the bare raise adds no
\* entry to its __traceback__, and its context is left alone.
ReRaise(h, inflight, frame) == h

\* The exception x leaves a call made in the function named frame: its
\* __traceback__ grows by the entry of that frame.
Propagate(h, x, frame) ==
    [h EXCEPT !.objs[x].traceback = Append(@, frame)]

\* The outcome r of a call, as the function named frame that made the call
\* receives it: an exception the call raised has propagated into frame.
Received(r, frame) ==
    IF r.obj = None THEN r
    ELSE [h |-> Propagate(r.h, r.obj, frame), obj |-> r.obj]

\* The last object of h is raised.
RaiseLast(h, inflight, frame) ==
    [h |-> Raise(h, LastObj(h), inflight, frame), obj |-> LastObj(h)]

\* A new exception of the given class and message, raised in frame while
\* inflight is being handled.
RaiseNew(h, class, message, inflight, frame) ==
    RaiseLast(Alloc(h, NewObj("leaf", class, message)), inflight, frame)

-----------------------------------------------------------------------------
(* Handlers *)

\* The handler functions of the model: one that returns, one that raises a
\* new RuntimeError, one that raises the exception it was given (raise exc)
\* and one with a bare raise.
Fns == {"ret", "new", "reraise", "bare"}

\* The body of the handler fn, called with caught while inflight is the
\* exception being handled.  Returns the heap and the exception raised
\* (None: the handler returned), as the handler's frame ends.
HandlerBody(h, fn, caught, inflight) ==
    CASE fn = "ret" -> [h |-> h, obj |-> None]
      [] fn = "new" ->
            RaiseNew(h, "RuntimeError", "handler error", inflight, "handler")
      [] fn = "reraise" ->
            [h |-> Raise(h, caught, inflight, "handler"), obj |-> caught]
      [] fn = "bare" ->
            [h |-> ReRaise(h, inflight, "handler"), obj |-> inflight]

\* handler(caught), called in __exit__ while inflight is the exception
\* being handled.  Returns the heap and the exception the call raised
\* (None: it returned), as __exit__ receives it.
CallHandler(h, fn, caught, inflight) ==
    Received(HandlerBody(h, fn, caught, inflight), "__exit__")

\* The with statement around a block that ended with exc in flight (None:
\* it ended normally), given what __exit__ did: an exception __exit__ raised
\* replaces exc; otherwise exc goes on unless __exit__ returned a true value.
WithStatement(exc, raised, returned) ==
    IF raised # None THEN raised
    ELSE IF exc # None /\ returned # "True" THEN exc
    ELSE None

\* The heap once the with statement is left: an exception __exit__ raised
\* has propagated into the frame that holds the with statement (the frame
\* of the block), which adds its entry; the exception of the block, when
\* the with statement raises it again, gets no entry.
AfterWith(h, raised) ==
    IF raised = None THEN h ELSE Propagate(h, raised, "body")

\* The record of one handler call: the handler's place, the exception it
\* was given, the exception it raised (None: it returned) and the context
\* and traceback saved before the call.
HandlerCall(i, caught, raised, context, traceback) ==
    [index |-> i, caught |-> caught, raised |-> raised,
     context |-> context, traceback |-> traceback]

-----------------------------------------------------------------------------
(* HandlerChain *)

\* Handle as it would be if a type registered again moved to the end.
HandleMoveToEnd(hs, exc_type, match, fn) ==
    Append(SelectSeq(hs, LAMBDA hd : hd.exc_type # exc_type),
           [exc_type |-> exc_type, match |-> match, fn |-> fn])

\* HandlerChain.handle(exc_type, match)(fn): self.handlers[exc_type] =
\* (match, fn) on an OrderedDict; a key already there keeps its place.
Handle(hs, exc_type, match, fn) ==
    IF \E i \in 1..Len(hs) : hs[i].exc_type = exc_type
    THEN [i \in 1..Len(hs) |->
             IF hs[i].exc_type = exc_type
             THEN [exc_type |-> exc_type, match |-> match, fn |-> fn]
             ELSE hs[i]]
    ELSE Append(hs, [exc_type |-> exc_type, match |-> match, fn |-> fn])

\* ChainHandled as it would be if lines 131-132 were left out.
ChainHandledNoReattach(i, st, r, saved_caught_context, saved_caught_traceback, c) ==
    [h |-> c.h,
     rest |-> r.rest,
     re_raised |-> IF c.obj = None THEN st.re_raised
                   ELSE Append(st.re_raised, c.obj),
     calls |-> Append(st.calls,
                  HandlerCall(i, r.matched, c.obj, saved_caught_context,
                              saved_caught_traceback)),
     splits |-> st.splits,
     handlers |-> st.handlers]

\* Lines 126-133: the handler was called with r.matched and left c; an
\* exception it raised gets the saved context and traceback and is added
\* to re_raised.
ChainHandled(i, st, r, saved_caught_context, saved_caught_traceback, c) ==
    [h |-> IF c.obj = None THEN c.h
           ELSE [c.h EXCEPT !.objs[c.obj].context = saved_caught_context,
                            !.objs[c.obj].traceback = saved_caught_traceback],
     rest |-> r.rest,
     re_raised |-> IF c.obj = None THEN st.re_raised
                   ELSE Append(st.re_raised, c.obj),
     calls |-> Append(st.calls,
                  HandlerCall(i, r.matched, c.obj, saved_caught_context,
                              saved_caught_traceback)),
     splits |-> st.splits,
     handlers |-> st.handlers]

\* ChainStep as it would be if rest were not rebound at line 120.
ChainStepKeepsRest(hd, i, exc, st, r) ==
    IF r.matched = None
    THEN [st EXCEPT !.h = r.h]
    ELSE ChainHandled(i, st, [r EXCEPT !.rest = st.rest],
                      r.h.objs[r.matched].context,
                      r.h.objs[r.matched].traceback,
                      CallHandler(r.h, hd.fn, r.matched, exc))

\* ChainStep as it would be if a handler were taken out of self.handlers
\* once its turn came.
ChainStepPopsHandler(hd, i, exc, st, r) ==
    [(IF r.matched = None
      THEN [st EXCEPT !.h = r.h, !.rest = r.rest]
      ELSE ChainHandled(i, st, r, r.h.objs[r.matched].context,
                        r.h.objs[r.matched].traceback,
                        CallHandler(r.h, hd.fn, r.matched, exc)))
        EXCEPT !.handlers = SelectSeq(@, LAMBDA e : e.exc_type # hd.exc_type)]

\* Lines 120-133: one turn of the loop, for the handler hd at place i,
\* given the result r of split.
ChainStep(hd, i, exc, st, r) ==
    IF r.matched = None
    THEN [st EXCEPT !.h = r.h, !.rest = r.rest]
    ELSE ChainHandled(i, st, r, r.h.objs[r.matched].context,
                      r.h.objs[r.matched].traceback,
                      CallHandler(r.h, hd.fn, r.matched, exc))

\* Line 120: split was called once more.
Counted(st) == [st EXCEPT !.splits = @ + 1]

RECURSIVE ChainLoop(_, _, _, _)

\* The for loop of HandlerChain.__exit__ from the i-th handler on, over the
\* items hs that self.handlers had when the loop began; st holds the heap,
\* rest, re_raised, the log of the handler calls made, the number of calls
\* of split made, and self.handlers.
ChainLoop(hs, exc, i, st) ==
    IF i > Len(hs) \/ st.rest = None THEN st
    ELSE ChainLoop(hs, exc, i + 1,
            ChainStep(hs[i], i, exc, Counted(st),
                      split(st.h, hs[i].exc_type, st.rest, hs[i].match)))

\* Lines 146-152: the group g.obj is raised, caught, its __context__ set to
\* None, and raised again with a bare raise.
ChainRaiseGroup(g, st, exc) ==
    [h |-> ReRaise([Raise(g.h, g.obj, exc, "__exit__")
                        EXCEPT !.objs[g.obj].context = None],
                   g.obj, "__exit__"),
     raised |-> g.obj, rest |-> st.rest, calls |-> st.calls,
     splits |-> st.splits, handlers |-> st.handlers]

\* Lines 136-152: a group of the re_raised exceptions is built and raised
\* if there are any; otherwise __exit__ ends, returning None.
ChainRaise(st, re_raised, exc) ==
    IF re_raised # <<>>
    THEN ChainRaiseGroup(
            ExceptionGroupInit(st.h, "Errors after handled by handler(s).",
                re_raised,
                [i \in 1..Len(re_raised) |-> Str(st.h, re_raised[i])]),
            st, exc)
    ELSE [h |-> st.h, raised |-> None, rest |-> st.rest, calls |-> st.calls,
          splits |-> st.splits, handlers |-> st.handlers]

\* ChainFinish as it would be if the rest were put first in re_raised.
ChainFinishRestFirst(st, exc) ==
    ChainRaise(st,
               IF st.rest # None THEN <<st.rest>> \o st.re_raised
               ELSE st.re_raised,
               exc)

\* Lines 134-152: the rest the loop left is added to re_raised.
ChainFinish(st, exc) ==
    ChainRaise(st,
               IF st.rest # None THEN Append(st.re_raised, st.rest)
               ELSE st.re_raised,
               exc)

\* The re_raised list of the dispatch before: the exceptions of the last
\* group a chain built on heap h (none if there is none).
PriorReRaised(h) ==
    IF \E g \in 1..Len(h.objs) :
          h.objs[g].message = "Errors after handled by handler(s)."
    THEN Exceptions(h, CHOOSE g \in 1..Len(h.objs) :
            /\ h.objs[g].message = "Errors after handled by handler(s)."
            /\ \A k \in (g + 1)..Len(h.objs) :
                  h.objs[k].message # "Errors after handled by handler(s).")
    ELSE <<>>

\* HandlerChain.__exit__(exc_type, exc, tb) with the registry hs.  Returns
\* the heap, the exception __exit__ raised (None: it returned, and then it
\* returned None), the last rest, the log of the handler calls and
\* self.handlers as the call leaves it.
HandlerChainExit(h, hs, exc) ==
    ChainFinish(ChainLoop(hs, exc, 1,
                    [h |-> h, rest |-> exc, re_raised |-> <<>>,
                     calls |-> <<>>, splits |-> 0, handlers |-> hs]),
                exc)

-----------------------------------------------------------------------------
(* Catcher *)

\* type(x).__name__ of an exc_type argument x (self._exc_type.__class__ is
\* the class of the argument: type for a class, tuple for a tuple).
ClassOfName(exc_type) == IF exc_type.form = "type" THEN "type" ELSE "tuple"

\* "caught {}".format(self._exc_type.__class__.__name__)
CatchMessage(exc_type) ==
    IF ClassOfName(exc_type) = "type" THEN "caught type" ELSE "caught tuple"

\* The group built at lines 221-225, as the pair (heap, object).
CatchGroup(g) == [h |-> g.h, obj |-> g.obj]

\* CatchResult as it would be if the group listed the rest first.
CatchResultRestFirst(h, self, handler_exc, rest) ==
    IF handler_exc = None THEN [h |-> h, obj |-> rest]
    ELSE IF rest = None THEN [h |-> h, obj |-> handler_exc]
    ELSE CatchGroup(
            ExceptionGroupInit(h, CatchMessage(self.exc_type),
                <<rest, handler_exc>>,
                <<"exception raised by handler", "uncaught exceptions">>))

\* Lines 218-227: exceptiongroup_catch_exc, given what the handler raised
\* (None: it returned).
CatchResult(h, self, handler_exc, rest) ==
    IF handler_exc = None THEN [h |-> h, obj |-> rest]
    ELSE IF rest = None THEN [h |-> h, obj |-> handler_exc]
    ELSE CatchGroup(
            ExceptionGroupInit(h, CatchMessage(self.exc_type),
                <<handler_exc, rest>>,
                <<"exception raised by handler", "uncaught exceptions">>))

\* Restore as it would be without the finally clause.
RestoreNothing(w, caught, saved_caught_context, saved_caught_traceback) ==
    [h |-> w.h, obj |-> w.obj]

\* Lines 228-230, the finally clause: the saved context and traceback are
\* put back on caught.
Restore(w, caught, saved_caught_context, saved_caught_traceback) ==
    [h |-> [w.h EXCEPT !.objs[caught].context = saved_caught_context,
                       !.objs[caught].traceback = saved_caught_traceback],
     obj |-> w.obj]

\* An exception __exit__ raised, as its result.
ExitRaised(e, caught, rest, calls) ==
    [h |-> e.h, raised |-> e.obj, returned |-> "", caught |-> caught,
     rest |-> rest, calls |-> calls]

\* Lines 235-239: exceptiongroup_catch_exc (w.obj) is raised with its
\* __context__ put back afterwards; reading the attribute of None is an
\* AttributeError.
CatchFinalRaise(w, exc) ==
    IF w.obj = None
    THEN RaiseNew(w.h, "AttributeError",
                  "'NoneType' object has no attribute '__context__'",
                  exc, "__exit__")
    ELSE [h |-> [Raise(w.h, w.obj, exc, "__exit__")
                    EXCEPT !.objs[w.obj].context = w.h.objs[w.obj].context],
          obj |-> w.obj]

\* CatchHandled as it would be without the test `handler_exc is caught`.
CatchHandledNoIdentityTest(self, exc, r, saved_caught_context, saved_caught_traceback, c) ==
    ExitRaised(
        CatchFinalRaise(
            Restore(CatchResult(c.h, self, c.obj, r.rest), r.matched,
                    saved_caught_context, saved_caught_traceback),
            exc),
        r.matched, r.rest,
        <<HandlerCall(1, r.matched, c.obj, saved_caught_context,
                      saved_caught_traceback)>>)

\* Lines 213-239, once the handler was called and left c.
CatchHandled(self, exc, r, saved_caught_context, saved_caught_traceback, c) ==
    IF c.obj = r.matched
    THEN [h |-> Restore(c, r.matched, saved_caught_context,
                        saved_caught_traceback).h,
          raised |-> None, returned |-> "False", caught |-> r.matched,
          rest |-> r.rest,
          calls |-> <<HandlerCall(1, r.matched, c.obj, saved_caught_context,
                                  saved_caught_traceback)>>]
    ELSE ExitRaised(
            CatchFinalRaise(
                Restore(CatchResult(c.h, self, c.obj, r.rest), r.matched,
                        saved_caught_context, saved_caught_traceback),
                exc),
            r.matched, r.rest,
            <<HandlerCall(1, r.matched, c.obj, saved_caught_context,
                          saved_caught_traceback)>>)

\* Lines 202-239, given the result r of split: a TypeError of split
\* propagates through __exit__; nothing caught returns False; otherwise caught is raised and
\* caught again, and the handler is called while it is being handled.
CatchAfterSplit(self, exc, r) ==
    IF r.raised # ""
    THEN ExitRaised(
            Received(
                RaiseNew(r.h, r.raised, SplitErrorMessage, exc, "split"),
                "__exit__"),
            None, None, <<>>)
    ELSE IF r.matched = None
    THEN [h |-> r.h, raised |-> None, returned |-> "False",
          caught |-> None, rest |-> r.rest, calls |-> <<>>]
    ELSE CatchHandled(self, exc, r, r.h.objs[r.matched].context,
                      r.h.objs[r.matched].traceback,
                      CallHandler(Raise(r.h, r.matched, exc, "__exit__"),
                                  self.handler, r.matched, r.matched))

\* Catcher.__exit__(etype, exc, tb) for self = (exc_type, handler, match).
\* Returns the heap, the exception __exit__ raised (None: it returned), the
\* value it returned, the pair split gave and the log of the handler call.
CatcherExit(h, self, exc) ==
    CatchAfterSplit(self, exc, split(h, self.exc_type, exc, self.match))

-----------------------------------------------------------------------------
(* The errors the model builds: trees of at most a given number of nodes. *)

\* The leaves: a class and the string the exception was built with.
LeafKinds ==
    {<<"ValueError", "a">>, <<"ValueError", "skip">>, <<"RuntimeError", "a">>}

LeafTree(class, message) ==
    [k |-> "leaf", class |-> class, message |-> message, kids |-> <<>>]
GroupTree(kids) ==
    [k |-> "group", class |-> "ExceptionGroup", message |-> "", kids |-> kids]

RECURSIVE TreesOfSize(_)
RECURSIVE Forests(_)

\* The sequences of trees with n nodes in all.
Forests(n) ==
    IF n = 0 THEN {<<>>}
    ELSE UNION {{<<t>> \o f : t \in TreesOfSize(k), f \in Forests(n - k)} :
                k \in 1..n}

\* The trees with exactly n nodes: the leaves and the empty group for n = 1
\* (the constructor accepts an empty list of exceptions).
TreesOfSize(n) ==
    (IF n = 1 THEN {LeafTree(l[1], l[2]) : l \in LeafKinds} ELSE {})
        \cup {GroupTree(f) : f \in Forests(n - 1)}

TreesUpTo(n) == UNION {TreesOfSize(k) : k \in 1..n}

\* The source label of the i-th exception of a group built by the model.
SourceLabel(i) ==
    <<"s1", "s2", "s3", "s4", "s5", "s6", "s7", "s8">>[i]

\* The message of a group built by the model at nesting depth d.
GroupMessage(d) ==
    <<"g1", "g2", "g3", "g4", "g5", "g6", "g7", "g8">>[d]

\* The heap before any error is built: it holds the exception other errors
\* have as their cause or context.
BaseHeap == Alloc(EmptyHeap, NewObj("leaf", "RuntimeError", "Cause"))
Ext == LastObj(BaseHeap)

\* The causal metadata a group carries when it is given to split.  A group
\* without a cause has a context or none, and the flag
\* __suppress_context__ is assignable on its own; a group with a cause is
\* as `raise group from Ext` leaves it in a handler of Ext.
Metas ==
    {m \in [cause : {None, Ext}, context : {None, Ext}, suppress : BOOLEAN,
            traceback : {<<"task">>}] :
        m.cause = Ext => m.context = Ext /\ m.suppress}

\* The metadata of an error built inside a guarded block, before it is
\* raised there: another exception may be in flight at that time.
RaisedMetas ==
    [cause : {None}, context : {None, Ext}, suppress : {FALSE},
     traceback : {<<>>}]

\* The metadata meta is put on the group r.obj just built.
WithMeta(r, meta) ==
    [h |-> [SetCause(r.h, r.obj, meta.cause)
               EXCEPT !.objs[r.obj].context = meta.context,
                      !.objs[r.obj].suppress = meta.suppress,
                      !.objs[r.obj].traceback = meta.traceback],
     obj |-> r.obj]

RECURSIVE Load(_, _, _, _)
RECURSIVE LoadKids(_, _, _, _, _, _)

\* The group of tree t over the objects ks.objs built for its children.
LoadGroup(ks, t, meta, d) ==
    WithMeta(ExceptionGroupInit(ks.h, GroupMessage(d), ks.objs,
                 [i \in 1..Len(t.kids) |-> SourceLabel(i)]),
             meta)

\* Builds the tree t on heap h, bottom-up as calling code does: the leaves,
\* then each group through the constructor, then the metadata meta on the
\* group.  Returns the heap and the object built.
Load(h, t, meta, d) ==
    IF t.k = "leaf"
    THEN [h |-> Alloc(h, NewObj("leaf", t.class, t.message)),
          obj |-> Len(h.objs) + 1]
    ELSE LoadGroup(LoadKids(h, t.kids, meta, d + 1, 1, <<>>), t, meta, d)

\* The i-th child r just built is added to objs, and the next is built.
LoadNext(r, kids, meta, d, i, objs) ==
    LoadKids(r.h, kids, meta, d, i + 1, Append(objs, r.obj))

LoadKids(h, kids, meta, d, i, objs) ==
    IF i > Len(kids) THEN [h |-> h, objs |-> objs]
    ELSE LoadNext(Load(h, kids[i], meta, d), kids, meta, d, i, objs)

\* A guarded block that ends normally.
NoError == [k |-> "none", class |-> "", message |-> "", kids |-> <<>>]

\* raise l.obj in the block, with nothing in flight.
RaiseInBody(l) == [h |-> Raise(l.h, l.obj, None, "body"), obj |-> l.obj]

\* The block of a with statement: it ends normally, or builds the error t
\* and raises it.
Body(h, t, meta) ==
    IF t.k = "none" THEN [h |-> h, obj |-> None]
    ELSE RaiseInBody(Load(h, t, meta, 1))

\* The objects a caller can put in the exceptions list of the constructor:
\* None, an exception, and an object that is no exception (the int 1).
ItemHeap(h) ==
    Alloc(Alloc(h, NewObj("leaf", "ValueError", "a")),
          NewObj("other", "int", "1"))
Items(h) == {None, LastObj(h) - 1, LastObj(h)}

\* The lists of at most n of the objects S.
SeqsUpTo(S, n) == UNION {[1..k -> S] : k \in 0..n}

\* "Expected an exception object, not {!r}".format(exc)
TypeErrorMessage(h, x) ==
    IF x = None THEN "Expected an exception object, not None"
    ELSE "Expected an exception object, not 1"

\* "different number of sources ({}) and exceptions ({})".format(...)
ValueErrorMessage(s, e) ==
    <<<<"", "different number of sources (0) and exceptions (1)",
        "different number of sources (0) and exceptions (2)",
        "different number of sources (0) and exceptions (3)">>,
      <<"different number of sources (1) and exceptions (0)", "",
        "different number of sources (1) and exceptions (2)",
        "different number of sources (1) and exceptions (3)">>,
      <<"different number of sources (2) and exceptions (0)",
        "different number of sources (2) and exceptions (1)", "",
        "different number of sources (2) and exceptions (3)">>,
      <<"different number of sources (3) and exceptions (0)",
        "different number of sources (3) and exceptions (1)",
        "different number of sources (3) and exceptions (2)",
        "">>>>[s + 1][e + 1]

\* The first object of items that is no exception.
FirstNonException(h, items) ==
    items[CHOOSE i \in 1..Len(items) :
              /\ ~IsException(h, items[i])
              /\ \A j \in 1..(i - 1) : IsException(h, items[j])]

\* The message of the error r.raised of a constructor call.
InitErrorMessage(r, exceptions, sources) ==
    IF r.raised = "TypeError"
    THEN TypeErrorMessage(r.h, FirstNonException(r.h, exceptions))
    ELSE ValueErrorMessage(Len(sources), Len(exceptions))

\* The result r of a constructor call made by calling code: the error it
\* raised becomes an exception object.
Constructed(r, exceptions, sources) ==
    IF r.raised = "" THEN [h |-> r.h, obj |-> r.obj, raised |-> None]
    ELSE [h |-> RaiseNew(r.h, r.raised,
                         InitErrorMessage(r, exceptions, sources),
                         None, "__init__").h,
          obj |-> None, raised |-> LastObj(r.h) + 1]

\* The error raised inside the block a chain guards: it was built while
\* the exception Ext was being handled.
ChainMetas == {m \in RaisedMetas : m.context = Ext}

\* The handler functions registered on a chain.
ChainFns == {"ret", "new", "bare"}

\* The errors of an earlier block guarded by the same chain: none, a leaf,
\* a group of two leaves.
PriorErrors ==
    {NoError, LeafTree("ValueError", "a"),
     GroupTree(<<LeafTree("ValueError", "a"), LeafTree("RuntimeError", "a")>>)}

\* The registrations made between two blocks guarded by one chain, as in
\* test_handler_chain_when_raise_bare_exception: a handler for ValueError.
LateRegistrations ==
    {[exc_type |-> TypeOf("ValueError"), match |-> "None"]}

\* The registrations the model draws from: the predicate is tried on the
\* class whose leaves it tells apart.
Registrations ==
    {[exc_type |-> TypeOf("ValueError"), match |-> m] : m \in Matches}
        \cup {[exc_type |-> TypeOf(c), match |-> "None"] :
                c \in {"RuntimeError", "Exception"}}

\* The registrations drawn in a phase of the chain: any of them before
\* and inside the first block, the late ones between two blocks.
RegistrationsAt(p) ==
    IF p = "used" THEN LateRegistrations ELSE Registrations

-----------------------------------------------------------------------------
(* State *)

VARIABLES
    heap,       \* the heap after the last operation
    pre,        \* the heap when the last operation was called
    handlers,   \* HandlerChain.handlers: the (exc_type, match, fn) in order
    phase,      \* "idle", "setup" (a chain is being set up), "entered" (the
                \* block of a chain runs), or the operation that ran last
    exc,        \* the error given to the last operation (None: none)
    arg,        \* the exc_type, match and handler of the last split or catch
    matched,    \* the matched (caught) result of the last split; after
                \* copy.copy, the group it returned
    rest,       \* the rest result of the last split
    escaped,    \* the exception that left the last operation (None: none)
    calls,      \* the handler invocations of the last operation, in order
    first_order, \* history: the types registered on the chain, each at the
                \* place of its first registration
    latest,     \* history: for each type, its most recent registration
    given,      \* the exceptions and sources given to the last constructor
                \* call made by calling code
    block,      \* what the last block guarded by a chain raised: the error
                \* and its metadata
    splits,     \* the number of calls of split the last dispatch made
    again       \* what split gave when called again on its own results

vars ==
    <<heap, pre, handlers, phase, exc, arg, matched, rest, escaped, calls,
      first_order, latest, given, block, splits, again>>

\* No call was made: the result was absent.
NotSplit == [matched |-> None, rest |-> None]

NoAgain == [mid |-> BaseHeap, of_matched |-> NotSplit, of_rest |-> NotSplit]

NoBlock == [tree |-> NoError, meta |-> CHOOSE m \in ChainMetas : TRUE]

NoGiven == [exceptions |-> <<>>, sources |-> <<>>]

\* The types a registration can name.
RegTypes == {reg.exc_type : reg \in Registrations}

NoArg == [exc_type |-> TypeOf("BaseException"), match |-> "None", fn |-> "ret"]

Init ==
    /\ heap = BaseHeap
    /\ pre = BaseHeap
    /\ handlers = <<>>
    /\ phase = "idle"
    /\ exc = None
    /\ arg = NoArg
    /\ matched = None
    /\ rest = None
    /\ escaped = None
    /\ calls = <<>>
    /\ first_order = <<>>
    /\ latest = [t \in RegTypes |-> NoArg]
    /\ given = NoGiven
    /\ block = NoBlock
    /\ splits = 0
    /\ again = NoAgain

\* ExceptionGroup("g1", exceptions, sources), called with any lists.
Construct ==
    /\ phase = "idle"
    /\ \E exceptions \in SeqsUpTo(Items(ItemHeap(heap)), MaxItems),
          n \in 0..MaxItems :
         \E r \in {Constructed(
                      ExceptionGroupInit(ItemHeap(heap), GroupMessage(1),
                          exceptions, [i \in 1..n |-> SourceLabel(i)]),
                      exceptions, [i \in 1..n |-> SourceLabel(i)])} :
            /\ pre' = ItemHeap(heap)
            /\ given' = [exceptions |-> exceptions,
                         sources |-> [i \in 1..n |-> SourceLabel(i)]]
            /\ heap' = r.h
            /\ exc' = r.obj
            /\ escaped' = r.raised
    /\ phase' = "construct"
    /\ UNCHANGED <<handlers, arg, matched, rest, calls, first_order, latest,
                   block, splits,
                   again>>

\* A call split(exc_type, e, match=match) on an error e just built.
SplitCall ==
    /\ phase = "idle"
    /\ \E t \in TreesUpTo(MaxNodes), meta \in Metas,
          exc_type \in ExcTypes, match \in Matches :
         /\ \E l \in {Load(heap, t, meta, 1)} :
            \E r \in {split(l.h, exc_type, l.obj, match)} :
               /\ pre' = l.h
               /\ exc' = l.obj
               /\ heap' = r.h
               /\ matched' = r.matched
               /\ rest' = r.rest
               /\ escaped' = None
         /\ arg' = [exc_type |-> exc_type, match |-> match, fn |-> "ret"]
    /\ phase' = "split"
    /\ UNCHANGED <<handlers, calls, first_order, latest, given, block,
                   splits, again>>

\* The result r of a split called by calling code: the TypeError it raised
\* becomes an exception object.
SplitRaised(r) ==
    IF r.raised = "" THEN [h |-> r.h, obj |-> None]
    ELSE RaiseNew(r.h, r.raised, SplitErrorMessage, None, "split")

\* A call split(exc_type, x, match=match) on an x that is no exception:
\* None, or the int 1.
\* The metadata of a group raised with no cause and no context.
PlainMeta ==
    [cause |-> None, context |-> None, suppress |-> FALSE,
     traceback |-> <<"task">>]

\* split(exc_type, x, match=match) for a result x of an earlier split, when
\* x is present; no call is made for an absent result.
SplitResult(h, exc_type, x, match) ==
    IF x = None
    THEN [h |-> h, matched |-> None, rest |-> None, raised |-> ""]
    ELSE split(h, exc_type, x, match)

\* m, u = split(exc_type, E, match=match), then split(exc_type, m,
\* match=match) if m is not None, then split(exc_type, u, match=match) if
\* u is not None.
SplitAgain ==
    /\ phase = "idle"
    /\ \E t \in TreesUpTo(MaxNodes), exc_type \in ExcTypes, match \in Matches :
         /\ \E l \in {Load(heap, t, PlainMeta, 1)} :
            \E r \in {split(l.h, exc_type, l.obj, match)} :
            \E rm \in {SplitResult(r.h, exc_type, r.matched, match)} :
            \E ru \in {SplitResult(rm.h, exc_type, r.rest, match)} :
               /\ pre' = l.h
               /\ exc' = l.obj
               /\ heap' = ru.h
               /\ matched' = r.matched
               /\ rest' = r.rest
               /\ escaped' = None
               /\ again' = [mid |-> r.h,
                            of_matched |-> [matched |-> rm.matched,
                                            rest |-> rm.rest],
                            of_rest |-> [matched |-> ru.matched,
                                         rest |-> ru.rest]]
         /\ arg' = [exc_type |-> exc_type, match |-> match, fn |-> "ret"]
    /\ phase' = "split_again"
    /\ UNCHANGED <<handlers, calls, first_order, latest, given, block,
                   splits>>

SplitInvalid ==
    /\ phase = "idle"
    /\ \E x \in {None, LastObj(ItemHeap(heap))},
          exc_type \in ExcTypes, match \in Matches :
         /\ \E r \in {split(ItemHeap(heap), exc_type, x, match)} :
               /\ pre' = ItemHeap(heap)
               /\ exc' = x
               /\ heap' = SplitRaised(r).h
               /\ matched' = r.matched
               /\ rest' = r.rest
               /\ escaped' = SplitRaised(r).obj
         /\ arg' = [exc_type |-> exc_type, match |-> match, fn |-> "ret"]
    /\ phase' = "split_invalid"
    /\ UNCHANGED <<handlers, calls, first_order, latest, given, block,
                   splits, again>>

\* copy.copy(group) by calling code on a group just built: __copy__ makes
\* the new group.
CopyCall ==
    /\ phase = "idle"
    /\ \E t \in {u \in TreesUpTo(MaxRaised) : u.k = "group"}, meta \in Metas :
         \E l \in {Load(heap, t, meta, 1)} :
         \E c \in {Copy(l.h, l.obj)} :
            /\ pre' = l.h
            /\ exc' = l.obj
            /\ heap' = c.h
            /\ matched' = c.obj
    /\ rest' = None
    /\ escaped' = None
    /\ arg' = NoArg
    /\ phase' = "copy"
    /\ UNCHANGED <<handlers, calls, first_order, latest, given, block,
                   splits, again>>

\* chain = HandlerChain(): __init__ sets handlers to an empty OrderedDict.
NewChain ==
    /\ phase = "idle"
    /\ handlers' = <<>>
    /\ phase' = "setup"
    /\ first_order' = <<>>
    /\ latest' = [t \in RegTypes |-> NoArg]
    /\ UNCHANGED <<heap, pre, exc, arg, matched, rest, escaped, calls, given,
                   block, splits,
                   again>>

\* chain.handle(exc_type, match)(fn): a registration on the chain, made
\* before the with statement, inside its block (__exit__ reads the
\* registry as the block ends) or after a block, for the next one.
Register ==
    /\ phase \in {"setup", "entered", "used"}
    /\ \E reg \in RegistrationsAt(phase), fn \in ChainFns :
         /\ \/ \E i \in 1..Len(handlers) : handlers[i].exc_type = reg.exc_type
            \/ Len(handlers) < MaxHandlers
         /\ handlers' = Handle(handlers, reg.exc_type, reg.match, fn)
         /\ arg' = IF phase = "setup"
                   THEN [exc_type |-> reg.exc_type, match |-> reg.match,
                         fn |-> fn]
                   ELSE arg
         /\ first_order' =
               IF \E i \in 1..Len(first_order) : first_order[i] = reg.exc_type
               THEN first_order ELSE Append(first_order, reg.exc_type)
         /\ latest' = [latest EXCEPT ![reg.exc_type] =
                          [exc_type |-> reg.exc_type, match |-> reg.match,
                           fn |-> fn]]
    /\ UNCHANGED <<heap, pre, phase, exc, matched, rest, escaped, calls, given,
                   block, splits,
                   again>>

\* with chain: __enter__ returns the chain; the block begins.
ChainEnter ==
    /\ phase = "setup"
    /\ phase' = "entered"
    /\ arg' = NoArg
    /\ UNCHANGED <<heap, pre, handlers, exc, matched, rest, escaped, calls,
                   first_order, latest, given, block, splits,
                   again>>

\* The block of `with chain` raises one of trees (or ends normally), and
\* __exit__ is called with what it raised.
Dispatch(trees) ==
    /\ \E t \in trees, meta \in ChainMetas :
         \E b \in {Body(heap, t, meta)} :
         \E r \in {HandlerChainExit(b.h, handlers, b.obj)} :
            /\ pre' = b.h
            /\ exc' = b.obj
            /\ heap' = AfterWith(r.h, r.raised)
            /\ rest' = r.rest
            /\ calls' = r.calls
            /\ escaped' = WithStatement(b.obj, r.raised, "None")
            /\ block' = [tree |-> t, meta |-> meta]
            /\ splits' = r.splits
            /\ handlers' = r.handlers
    /\ arg' = NoArg
    /\ UNCHANGED <<matched, first_order, latest, given, again>>

\* with chain: <block>, on a chain that guarded no block yet.
ChainWith ==
    /\ phase = "entered"
    /\ Dispatch(TreesUpTo(MaxRaised) \cup {NoError})
    /\ phase' = "chain"

\* with chain: <block>, a block that another block guarded by the same
\* chain will follow.
ChainEarlier ==
    /\ phase = "entered"
    /\ Dispatch(PriorErrors)
    /\ phase' = "used"

\* with chain: <block>, on a chain that guarded a block before, while the
\* calling code still holds what that block let out.
ChainAgain ==
    /\ phase = "used"
    /\ Dispatch(TreesUpTo(MaxReused) \cup {NoError})
    /\ phase' = "reused"

\* The calling code has handled what the last block let out (pytest.raises,
\* an except clause) and holds its exceptions no longer: they are freed, and
\* the chain, with the registry it has, is ready for registrations and for
\* another with statement.
BlockHandled ==
    /\ phase \in {"chain", "used", "reused"}
    /\ phase' = "setup"
    /\ heap' = BaseHeap
    /\ pre' = BaseHeap
    /\ exc' = None
    /\ arg' = NoArg
    /\ matched' = None
    /\ rest' = None
    /\ escaped' = None
    /\ calls' = <<>>
    /\ block' = NoBlock
    /\ splits' = 0
    /\ UNCHANGED <<handlers, first_order, latest, given, again>>

\* with catch(exc_type, fn, match): <block>
CatchWith ==
    /\ phase = "idle"
    /\ \E t \in TreesUpTo(MaxRaised) \cup {NoError}, meta \in RaisedMetas,
          exc_type \in ExcTypes, match \in Matches, fn \in Fns :
         /\ \E b \in {Body(heap, t, meta)} :
            \E r \in {CatcherExit(b.h,
                        [exc_type |-> exc_type, handler |-> fn,
                         match |-> match], b.obj)} :
               /\ pre' = b.h
               /\ exc' = b.obj
               /\ heap' = AfterWith(r.h, r.raised)
               /\ matched' = r.caught
               /\ rest' = r.rest
               /\ calls' = r.calls
               /\ escaped' = WithStatement(b.obj, r.raised, r.returned)
         /\ arg' = [exc_type |-> exc_type, match |-> match, fn |-> fn]
    /\ phase' = "catch"
    /\ UNCHANGED <<handlers, first_order, latest, given, block,
                   splits, again>>

Next ==
    \/ Construct
    \/ SplitCall
    \/ SplitAgain
    \/ SplitInvalid
    \/ CopyCall
    \/ NewChain
    \/ Register
    \/ ChainEnter
    \/ ChainWith
    \/ ChainEarlier
    \/ ChainAgain
    \/ BlockHandled
    \/ CatchWith

Spec == Init /\ [][Next]_vars

-----------------------------------------------------------------------------
(* Vocabulary of the properties *)

RECURSIVE LeavesOf(_, _)
RECURSIVE LeavesFrom(_, _, _)

\* The leaves reachable from x on heap h, in order (none for None).
LeavesOf(h, x) ==
    IF x = None THEN <<>>
    ELSE IF IsGroup(h, x) THEN LeavesFrom(h, Exceptions(h, x), 1)
    ELSE <<x>>

LeavesFrom(h, items, i) ==
    IF i > Len(items) THEN <<>>
    ELSE LeavesOf(h, items[i]) \o LeavesFrom(h, items, i + 1)

RECURSIVE NoEmptyGroup(_, _)
\* Every group reachable from x has at least one child.
NoEmptyGroup(h, x) ==
    IsGroup(h, x) =>
        /\ Exceptions(h, x) # <<>>
        /\ \A i \in 1..Len(Exceptions(h, x)) :
              NoEmptyGroup(h, Exceptions(h, x)[i])

\* The leaf x is of the type of the matcher (t, m) and satisfies its
\* predicate, when one is given.
Accepts(h, t, m, x) ==
    /\ \E i \in 1..Len(t.classes) : IsSubclass(h.objs[x].class, t.classes[i])
    /\ m = "not_skip" => h.objs[x].message # "skip"

\* The matcher of the last split or catch accepts the leaf x.
ArgAccepts(x) == Accepts(pre, arg.exc_type, arg.match, x)
ArgRejects(x) == ~ArgAccepts(x)

AllLeavesMatch ==
    \A i \in 1..Len(LeavesOf(pre, exc)) : ArgAccepts(LeavesOf(pre, exc)[i])
NoLeafMatches ==
    \A i \in 1..Len(LeavesOf(pre, exc)) : ArgRejects(LeavesOf(pre, exc)[i])

\* A child of the group x is itself a group.
HasNestedGroup(h, x) ==
    /\ IsGroup(h, x)
    /\ \E i \in 1..Len(Exceptions(h, x)) : IsGroup(h, Exceptions(h, x)[i])

\* x is an object built during the last operation.
Fresh(x) == x > Len(pre.objs)

\* Every object and list that existed when the last operation was called
\* is as it was.
InputUntouched ==
    /\ \A x \in 1..Len(pre.objs) : heap.objs[x] = pre.objs[x]
    /\ \A l \in 1..Len(pre.lists) :
          /\ Len(heap.lists[l]) = Len(pre.lists[l])
          /\ \A i \in 1..Len(pre.lists[l]) : heap.lists[l][i] = pre.lists[l][i]

\* The exceptions the handlers raised during the last operation, in the
\* order of the calls.
RaisedOf(cs) == [i \in 1..Len(cs) |-> cs[i].raised]
DidRaise(c) == c.raised # None
HandlerRaised == RaisedOf(SelectSeq(calls, DidRaise))

-----------------------------------------------------------------------------
(* Properties of ExceptionGroup *)

\* The group g has as many sources as exceptions, all of them exceptions.
WellFormed(h, g) ==
    /\ h.objs[g].exceptions # None
    /\ h.objs[g].sources # None
    /\ Len(Sources(h, g)) = Len(Exceptions(h, g))
    /\ ~HasNonException(h, Exceptions(h, g))

\* The lists given to the last constructor call break a rule.
GivenHasNonException == HasNonException(pre, given.exceptions)
GivenLengthsDiffer == Len(given.sources) # Len(given.exceptions)

\* C15: the constructor raises an error and yields no group when a child
\* is no exception or the sources are not as many as the children; and
\* every group the constructor, split, a chain or a catch produced has as
\* many sources as children, all of them exceptions.
C15_WellFormed ==
    /\ phase = "construct" =>
          /\ GivenHasNonException =>
                /\ exc = None /\ escaped # None
                /\ heap.objs[escaped].class = "TypeError"
          /\ ~GivenHasNonException /\ GivenLengthsDiffer =>
                /\ exc = None /\ escaped # None
                /\ heap.objs[escaped].class = "ValueError"
          /\ ~GivenHasNonException /\ ~GivenLengthsDiffer =>
                /\ escaped = None
                /\ IsGroup(heap, exc) /\ Fresh(exc)
                /\ WellFormed(heap, exc)
                /\ Exceptions(heap, exc) = given.exceptions
                /\ Sources(heap, exc) = given.sources
    /\ phase # "construct" =>
          \A g \in 1..Len(heap.objs) : IsGroup(heap, g) => WellFormed(heap, g)

\* The constructor was given two exceptions and one source.
C15_Witness ==
    /\ phase = "construct"
    /\ Len(given.exceptions) = 2
    /\ ~GivenHasNonException
    /\ Len(given.sources) = 1
    /\ exc = None
    /\ heap.objs[escaped].message =
          "different number of sources (1) and exceptions (2)"

-----------------------------------------------------------------------------
(* Properties of split *)

\* C1: split partitions the leaves of E.  Every leaf of the matched result
\* is accepted by the matcher, every leaf of the rest is not, and the
\* leaves of each result are the accepted (the rejected) leaves of E, each
\* once and in the order they have in E.
C1_SplitPartitionsLeaves ==
    phase = "split" =>
        /\ \A i \in 1..Len(LeavesOf(heap, matched)) :
              Accepts(heap, arg.exc_type, arg.match,
                      LeavesOf(heap, matched)[i])
        /\ \A i \in 1..Len(LeavesOf(heap, rest)) :
              ~Accepts(heap, arg.exc_type, arg.match, LeavesOf(heap, rest)[i])
        /\ LeavesOf(heap, matched) = SelectSeq(LeavesOf(pre, exc), ArgAccepts)
        /\ LeavesOf(heap, rest) = SelectSeq(LeavesOf(pre, exc), ArgRejects)

\* A split with a predicate of an error with a nested group, of which some
\* leaves went to each side.
C1_Witness ==
    /\ phase = "split"
    /\ arg.match = "not_skip"
    /\ HasNestedGroup(pre, exc)
    /\ matched # None /\ matched # exc
    /\ LeavesOf(heap, matched) # <<>>
    /\ LeavesOf(heap, rest) # <<>>

\* C2: for every error the constructor accepts, if every leaf matches
\* split returns (E, None), and if no leaf matches (None, E), with E itself
\* and without building a clone.
C2_IdentityForEveryError ==
    phase = "split" =>
        /\ AllLeavesMatch => matched = exc /\ rest = None /\ heap = pre
        /\ NoLeafMatches => matched = None /\ rest = exc /\ heap = pre

\* C16: split of None, or of an object that is no exception, raises a
\* TypeError for every matcher and returns no pair.
C16_SplitRejectsNonException ==
    phase = "split_invalid" =>
        /\ escaped # None /\ Fresh(escaped)
        /\ heap.objs[escaped].class = "TypeError"
        /\ matched = None /\ rest = None
        /\ \A x \in 1..Len(pre.objs) : heap.objs[x] = pre.objs[x]

\* split was called on None with a tuple of types and a predicate.
C16_Witness ==
    /\ phase = "split_invalid"
    /\ exc = None
    /\ arg.exc_type.form = "tuple"
    /\ arg.match = "not_skip"
    /\ escaped # None

RECURSIVE GroupsOf(_, _)
\* The groups reachable from x on heap h, x included (none for None).
GroupsOf(h, x) ==
    IF ~IsGroup(h, x) THEN {}
    ELSE {x} \cup UNION {GroupsOf(h, Exceptions(h, x)[i]) :
                            i \in 1..Len(Exceptions(h, x))}

\* The clones the last split returned, at every nesting level.
ClonesReturned ==
    {c \in GroupsOf(heap, matched) \cup GroupsOf(heap, rest) : Fresh(c)}

\* The list object l is held by the group c alone, as one attribute.
OwnList(c, l) ==
    /\ l > Len(pre.lists)
    /\ \A o \in 1..Len(heap.objs) :
          o # c => heap.objs[o].exceptions # l /\ heap.objs[o].sources # l

\* C14: split leaves E and every group nested in E with the children and
\* sources they had (no object or list that existed before the call is
\* changed), and the exceptions and sources lists of every clone returned
\* are list objects of their own, shared with no group of E and with no
\* other clone, so that changing them changes nothing of E.
C14_NoSideEffectNoAlias ==
    phase = "split" =>
        /\ InputUntouched
        /\ \A g \in GroupsOf(pre, exc) :
              /\ Exceptions(heap, g) = Exceptions(pre, g)
              /\ Sources(heap, g) = Sources(pre, g)
        /\ \A c \in ClonesReturned :
              /\ OwnList(c, heap.objs[c].exceptions)
              /\ OwnList(c, heap.objs[c].sources)
              /\ heap.objs[c].exceptions # heap.objs[c].sources

\* A split that returned clones at two nesting levels.
C14_Witness ==
    /\ phase = "split"
    /\ matched # None /\ matched # exc
    /\ Cardinality(ClonesReturned) >= 4
    /\ LeavesOf(heap, matched) # <<>>
    /\ LeavesOf(heap, rest) # <<>>

RECURSIVE PathsOf(_, _, _)
RECURSIVE PathsFrom(_, _, _, _)

\* The end nodes reachable from x (the leaves, and the groups without
\* children), in order, each with its path: for every ancestor, outermost
\* first, the message of the ancestor and the source label it pairs with
\* the child on the way.
PathsOf(h, x, path) ==
    IF x = None THEN <<>>
    ELSE IF ~IsGroup(h, x)
    THEN <<[node |-> x, message |-> h.objs[x].message, path |-> path]>>
    ELSE IF Exceptions(h, x) = <<>>
    THEN <<[node |-> None, message |-> h.objs[x].message, path |-> path]>>
    ELSE PathsFrom(h, x, path, 1)

PathsFrom(h, g, path, i) ==
    IF i > Len(Exceptions(h, g)) THEN <<>>
    ELSE PathsOf(h, Exceptions(h, g)[i],
                 Append(path, <<h.objs[g].message, Sources(h, g)[i]>>))
             \o PathsFrom(h, g, path, i + 1)

\* The end nodes of E that go to the matched result and to the rest: a
\* group without children is cloned on both sides.
GoesToMatched(n) == n.node = None \/ ArgAccepts(n.node)
GoesToRest(n) == n.node = None \/ ArgRejects(n.node)

\* The end nodes of the matched result and of the rest are those of paths
\* that go there, with their paths, in order.
PathsKept(paths) ==
    /\ PathsOf(heap, matched, <<>>) = SelectSeq(paths, GoesToMatched)
    /\ PathsOf(heap, rest, <<>>) = SelectSeq(paths, GoesToRest)

\* C19: split keeps the shape of the tree and the source labels.  Every
\* leaf of the matched result and of the rest is at the depth it has in E,
\* under groups with the messages of its ancestors in E, and every child
\* on its way is paired with the source label its origin is paired with in
\* E, in the order of E; a group is split by its children whatever the
\* type asked for.
C19_ShapeAndSources ==
    phase = "split" =>
        /\ PathsKept(PathsOf(pre, exc, <<>>))
        /\ \A c \in ClonesReturned :
              Len(Sources(heap, c)) = Len(Exceptions(heap, c))

\* A split by BaseException and a predicate of a group in a group, which
\* kept the second child of the inner group and left the first.
C19_Witness ==
    /\ phase = "split"
    /\ arg.exc_type = TypeOf("BaseException")
    /\ matched # None /\ matched # exc /\ rest # None
    /\ Len(PathsOf(heap, matched, <<>>)) = 1
    /\ PathsOf(heap, matched, <<>>)[1].node # None
    /\ PathsOf(heap, matched, <<>>)[1].path = <<<<"g1", "s1">>, <<"g2", "s2">>>>

\* The clone c has the message, cause, context, suppress flag and
\* traceback of the group e it was copied from.
SameMetadata(c, e) ==
    /\ c.message = e.message
    /\ c.cause = e.cause
    /\ c.context = e.context
    /\ c.suppress = e.suppress
    /\ c.traceback = e.traceback

\* C10: a clone returned by split has the message, cause, context,
\* suppressContext flag and traceback of the group it was cloned from.
C10_CloneKeepsMetadata ==
    phase = "split" /\ matched # None /\ matched # exc =>
        /\ SameMetadata(heap.objs[matched], pre.objs[exc])
        /\ SameMetadata(heap.objs[rest], pre.objs[exc])

\* C21: split is idempotent on its own results.  For every matcher and every
\* error E in which every group has at least one child, with (m, u) the
\* pair split gave for E: if m is present, split of m by the same matcher
\* gives (m, None) with m the same object; if u is present, split of u
\* gives (None, u) with u the same object; and the calls on m and u build
\* nothing and change nothing.
C21_SplitIdempotent ==
    phase = "split_again" /\ NoEmptyGroup(pre, exc) =>
        /\ matched # None =>
              again.of_matched = [matched |-> matched, rest |-> None]
        /\ rest # None =>
              again.of_rest = [matched |-> None, rest |-> rest]
        /\ heap = again.mid

\* A group in a group was split in two by a predicate, into clones at both
\* levels, and both clones were split again.
C21_Witness ==
    /\ phase = "split_again"
    /\ NoEmptyGroup(pre, exc)
    /\ arg.match = "not_skip"
    /\ matched # None /\ Fresh(matched)
    /\ rest # None /\ Fresh(rest)
    /\ Cardinality({c \in GroupsOf(heap, matched) : Fresh(c)}) = 2
    /\ again.of_matched.matched = matched
    /\ again.of_rest.rest = rest

-----------------------------------------------------------------------------
(* Properties of HandlerChain *)

\* Some registered handler accepts the leaf x.
Claimed(x) ==
    \E i \in 1..Len(handlers) :
        Accepts(pre, handlers[i].exc_type, handlers[i].match, x)

\* C11: after any sequence of registrations on one chain, the registry
\* lists each registered type once, at the place of its first registration,
\* with the match and handler of its most recent registration.
C11_RegistryOrder ==
    /\ Len(handlers) = Len(first_order)
    /\ \A i \in 1..Len(handlers) :
          /\ handlers[i].exc_type = first_order[i]
          /\ handlers[i] = latest[first_order[i]]
    /\ \A i, j \in 1..Len(handlers) :
          handlers[i].exc_type = handlers[j].exc_type => i = j

\* The type registered last was registered before another one: it is
\* registered again, and is not at the end of the registry.
C11_Witness ==
    /\ phase = "setup"
    /\ Len(handlers) = 2
    /\ arg.exc_type = handlers[1].exc_type
    /\ handlers[1] = arg

\* C3: when every leaf of E is claimed by a registered handler and every
\* handler called returns normally, no error leaves the scope.  Stated for
\* an E with a leaf in every group, so that some handler is called.
C3_FullSuppression ==
    ( /\ phase = "chain"
      /\ exc # None
      /\ NoEmptyGroup(pre, exc)
      /\ \A i \in 1..Len(LeavesOf(pre, exc)) : Claimed(LeavesOf(pre, exc)[i])
      /\ \A i \in 1..Len(calls) : calls[i].raised = None )
        => escaped = None

\* C4: what leaves the scope of a chain is nothing or one group built by
\* the chain, and never E itself.
C4_NormalisedOutput ==
    phase = "chain" /\ exc # None =>
        \/ escaped = None
        \/ IsGroup(heap, escaped) /\ Fresh(escaped) /\ escaped # exc

\* C5: when a handler raised or a rest is left, the scope raises one new
\* group with the fixed message, whose exceptions are the errors the
\* handlers raised, in the order of registration, then the rest if there
\* is one, whose sources are the strings of these, and whose context is
\* None.  With no handler, the group holds E alone; with one handler that
\* raises a new error for all of E, that error alone.
C5_OutputGroup ==
    phase = "chain" /\ (HandlerRaised # <<>> \/ rest # None) =>
        /\ IsGroup(heap, escaped) /\ Fresh(escaped)
        /\ heap.objs[escaped].message = "Errors after handled by handler(s)."
        /\ heap.objs[escaped].context = None
        /\ Exceptions(heap, escaped) =
              HandlerRaised \o (IF rest # None THEN <<rest>> ELSE <<>>)
        /\ Len(Sources(heap, escaped)) = Len(Exceptions(heap, escaped))
        /\ \A i \in 1..Len(Exceptions(heap, escaped)) :
              Sources(heap, escaped)[i] =
                  heap.objs[Exceptions(heap, escaped)[i]].message
        /\ \A i, j \in 1..Len(calls) :
              i < j => calls[i].index < calls[j].index
        /\ handlers = <<>> => Exceptions(heap, escaped) = <<exc>>
        /\ ( /\ Len(handlers) = 1
             /\ handlers[1].fn = "new"
             /\ Len(calls) = 1
             /\ calls[1].caught = exc )
              => /\ Exceptions(heap, escaped) = <<calls[1].raised>>
                 /\ Fresh(calls[1].raised)

\* A dispatch in which a handler raised a new error and a leaf of E was
\* left unclaimed.
C5_Witness ==
    /\ phase = "chain"
    /\ HandlerRaised # <<>>
    /\ Fresh(HandlerRaised[1])
    /\ rest # None
    /\ LeavesOf(heap, rest) # <<>>
    /\ Len(Exceptions(heap, escaped)) = Len(HandlerRaised) + 1

\* C13: every error a handler raised during a dispatch is a child of the
\* group raised, with the context and traceback that the caught error given
\* to that handler had before the call; its context is neither that caught
\* error nor E.
C13_MetadataReattached ==
    phase = "chain" =>
        \A i \in 1..Len(calls) :
            calls[i].raised # None =>
                /\ IsGroup(heap, escaped)
                /\ \E k \in 1..Len(Exceptions(heap, escaped)) :
                      Exceptions(heap, escaped)[k] = calls[i].raised
                /\ heap.objs[calls[i].raised].context = calls[i].context
                /\ heap.objs[calls[i].raised].traceback = calls[i].traceback
                /\ heap.objs[calls[i].raised].context # calls[i].caught
                /\ heap.objs[calls[i].raised].context # exc
                /\ ~Fresh(calls[i].caught) =>
                      /\ calls[i].context = pre.objs[calls[i].caught].context
                      /\ calls[i].traceback =
                            pre.objs[calls[i].caught].traceback

\* A handler given a clone of a part of E, whose context is the exception
\* Ext, raised a new error, and that error has Ext as its context.
C13_Witness ==
    /\ phase = "chain"
    /\ calls # <<>>
    /\ calls[1].raised # None
    /\ Fresh(calls[1].raised)
    /\ Fresh(calls[1].caught)
    /\ LeavesOf(heap, calls[1].caught) # <<>>
    /\ rest # None
    /\ calls[1].context = Ext
    /\ heap.objs[calls[1].raised].context = Ext

\* The place of the earliest registered handler that accepts the leaf x of
\* E (0: no handler accepts it).
FirstAccepting(x) ==
    IF Claimed(x)
    THEN CHOOSE i \in 1..Len(handlers) :
            /\ Accepts(pre, handlers[i].exc_type, handlers[i].match, x)
            /\ \A j \in 1..(i - 1) :
                  ~Accepts(pre, handlers[j].exc_type, handlers[j].match, x)
    ELSE 0

\* The leaves of E whose earliest accepting handler is at place i.
LeavesFor(i) ==
    SelectSeq(LeavesOf(pre, exc), LAMBDA x : FirstAccepting(x) = i)

\* The objects reachable from x: x, its groups and its leaves.
NodesOf(h, x) ==
    GroupsOf(h, x) \cup {LeavesOf(h, x)[i] : i \in 1..Len(LeavesOf(h, x))}

\* Every one of the leaves is accepted by a handler at a place up to k.
AllClaimedBy(leaves, k) ==
    \A i \in 1..Len(leaves) : FirstAccepting(leaves[i]) \in 1..k

\* After the turn of the handler at place k nothing is left of E: every
\* leaf was claimed by then (a group without children is never claimed).
NothingLeftAfter(k) ==
    NoEmptyGroup(pre, exc) /\ AllClaimedBy(LeavesOf(pre, exc), k)

\* The number of turns the loop takes: one for every handler before whose
\* turn something is left, none if the block raised nothing.
Turns ==
    IF exc = None THEN 0
    ELSE Cardinality({k \in 1..Len(handlers) :
                         k = 1 \/ ~NothingLeftAfter(k - 1)})

\* The loop took t turns: split was called t times, and no handler after
\* place t was called.
TurnsTaken(t) ==
    /\ splits = t
    /\ \A i \in 1..Len(calls) : calls[i].index <= t

\* C20: in one dispatch the handlers are called in the order of
\* registration, each at most once; the handler at place i is given
\* exactly the leaves of E that it accepts and no earlier handler accepts,
\* so every leaf goes to its earliest accepting handler and to no other;
\* the leaves no handler accepts, and only they, are in the rest; an error
\* a handler raised is never in what a later handler is given; and once
\* nothing is left, no handler is called and split is not called again.
C20_FirstMatchDispatch ==
    phase = "chain" =>
        /\ \A i, j \in 1..Len(calls) :
              i < j => calls[i].index < calls[j].index
        /\ \A i \in 1..Len(calls) :
              /\ calls[i].index \in 1..Len(handlers)
              /\ LeavesOf(heap, calls[i].caught) = LeavesFor(calls[i].index)
        /\ \A k \in 1..Len(handlers) :
              LeavesFor(k) # <<>> =>
                  \E i \in 1..Len(calls) : calls[i].index = k
        /\ LeavesOf(heap, rest) = LeavesFor(0)
        /\ \A i, j \in 1..Len(calls) :
              i < j /\ calls[i].raised # None =>
                  calls[i].raised \notin NodesOf(heap, calls[j].caught)
        /\ TurnsTaken(Turns)
        /\ (rest = None) <=> (exc = None \/ NothingLeftAfter(Len(handlers)))

\* Two handlers were called for a group: a leaf both accept went to the
\* first, a leaf only the second accepts went to the second, the first
\* raised, and nothing was left.
C20_Witness ==
    /\ phase = "chain"
    /\ Len(calls) = 2
    /\ calls[1].raised # None
    /\ rest = None
    /\ \E x \in 1..Len(pre.objs) :
          /\ x \in NodesOf(pre, exc)
          /\ ~IsGroup(pre, x)
          /\ Accepts(pre, handlers[1].exc_type, handlers[1].match, x)
          /\ Accepts(pre, handlers[2].exc_type, handlers[2].match, x)
          /\ x \in NodesOf(heap, calls[1].caught)
    /\ LeavesOf(heap, calls[2].caught) # <<>>

\* The handler call c is the one the registry tells for E: the handler is
\* given the leaves of E it is the first to accept, and what left the call
\* is what that handler does (it returns, raises a new error, or raises
\* again the exception of the block).
CallByRegistry(c) ==
    /\ c.index \in 1..Len(handlers)
    /\ LeavesOf(heap, c.caught) = LeavesFor(c.index)
    /\ handlers[c.index].fn = "ret" => c.raised = None
    /\ handlers[c.index].fn = "new" => c.raised # None /\ Fresh(c.raised)
    /\ handlers[c.index].fn = "bare" => c.raised = exc

\* What left the scope is what E and the handler calls tell: a new group of
\* the errors the handlers raised and the rest, or else what the block
\* raised.
EscapedByRegistry ==
    IF HandlerRaised # <<>> \/ rest # None
    THEN /\ IsGroup(heap, escaped) /\ Fresh(escaped)
         /\ Exceptions(heap, escaped) =
               HandlerRaised \o (IF rest # None THEN <<rest>> ELSE <<>>)
    ELSE escaped = exc

\* The object x is of E, or was made during the last dispatch.
OfThisDispatch(x) == x \in NodesOf(pre, exc) \/ Fresh(x)

\* The objects reachable from what the last dispatch gave: what left the
\* scope, the rest, and what the handlers were given.
OutcomeNodes ==
    NodesOf(heap, escaped) \cup NodesOf(heap, rest)
        \cup UNION {NodesOf(heap, calls[i].caught) : i \in 1..Len(calls)}

\* C18: after a dispatch the registry is as the registrations made it, and
\* a dispatch on a chain that guarded a block before, whose errors are
\* still there, is told by its own E and the registry alone: the handlers
\* called, in the order of registration, are those that are first to
\* accept a leaf of E, each is given those leaves, the rest holds the
\* leaves no handler accepts, what leaves the scope is the group of what
\* these calls raised and that rest (or what the block raised), and no
\* object of the dispatch before is reachable from any of these.
C18_ReuseAcrossScopes ==
    /\ phase \in {"chain", "used", "reused"} =>
          /\ Len(handlers) = Len(first_order)
          /\ \A i \in 1..Len(handlers) : handlers[i] = latest[first_order[i]]
    /\ phase = "reused" =>
          /\ \A i \in 1..Len(calls) : CallByRegistry(calls[i])
          /\ \A i, j \in 1..Len(calls) :
                i < j => calls[i].index < calls[j].index
          /\ \A k \in 1..Len(handlers) :
                LeavesFor(k) # <<>> =>
                    \E i \in 1..Len(calls) : calls[i].index = k
          /\ LeavesOf(heap, rest) = LeavesFor(0)
          /\ EscapedByRegistry
          /\ \A x \in OutcomeNodes : OfThisDispatch(x)

\* A second dispatch on a chain whose first dispatch raised a group: both
\* groups are on the heap, and a handler raised in the second.
C18_Witness ==
    /\ phase = "reused"
    /\ PriorReRaised(pre) # <<>>
    /\ HandlerRaised # <<>>
    /\ rest # None
    /\ IsGroup(heap, escaped)
    /\ Exceptions(heap, escaped) # PriorReRaised(pre)

-----------------------------------------------------------------------------
(* Properties of Catcher *)

\* C6: when something is caught and the handler returns, the rest is what
\* is raised out of the scope, and nothing is if there is no rest.
C6_HandlerReturns ==
    phase = "catch" /\ matched # None /\ arg.fn = "ret" => escaped = rest

\* C7: when the block ends normally, the handler is not called and the
\* guard raises nothing.
C7_NormalExit ==
    phase = "catch" /\ exc = None => calls = <<>> /\ escaped = None

\* C8: when the handler raises an error H other than caught, the scope
\* raises H itself if there is no rest, and otherwise a new group of
\* [H, rest] with the two fixed sources and a message fixed by the kind of
\* the exc_type argument alone.
C8_HandlerRaisesOther ==
    ( /\ phase = "catch"
      /\ calls # <<>>
      /\ calls[1].raised # None
      /\ calls[1].raised # matched )
        => IF rest = None
           THEN escaped = calls[1].raised
           ELSE /\ IsGroup(heap, escaped) /\ Fresh(escaped)
                /\ escaped # calls[1].raised /\ escaped # rest
                /\ Exceptions(heap, escaped) = <<calls[1].raised, rest>>
                /\ Sources(heap, escaped) =
                      <<"exception raised by handler", "uncaught exceptions">>
                /\ heap.objs[escaped].message =
                      (IF arg.exc_type.form = "type" THEN "caught type"
                       ELSE "caught tuple")

\* The handler raised a new error for the part of a group it was given,
\* and a rest was left.
C8_Witness ==
    /\ phase = "catch"
    /\ calls # <<>>
    /\ Fresh(calls[1].raised)
    /\ matched # exc
    /\ rest # None
    /\ IsGroup(heap, escaped)
    /\ Len(Exceptions(heap, escaped)) = Len(<<calls[1].raised, rest>>)

\* C12: on every path of the exit step on which the handler is called
\* (it returns, it raises the object it was given, it raises another
\* error), the context and traceback of caught after the exit step are the
\* ones saved before caught was raised for the handler.
C12_GuaranteedRestore ==
    phase = "catch" /\ calls # <<>> =>
        /\ calls[1].caught = matched
        /\ heap.objs[matched].context = calls[1].context
        /\ heap.objs[matched].traceback = calls[1].traceback
        /\ ~Fresh(matched) =>
              /\ calls[1].context = pre.objs[matched].context
              /\ calls[1].traceback = pre.objs[matched].traceback

\* The handler raised a new error, whose context is caught: caught was
\* being handled, raised by the exit step, when the handler ran.
C12_Witness ==
    /\ phase = "catch"
    /\ calls # <<>>
    /\ arg.fn = "new"
    /\ matched = exc
    /\ heap.objs[calls[1].raised].context = matched
    /\ heap.objs[matched].traceback = calls[1].traceback

\* C17: when the block ends with an error E of which no leaf matches the
\* matcher of the catch, the handler is not called, no group is built and
\* E itself leaves the scope, as it was.
C17_DeclinesWhenNothingMatches ==
    phase = "catch" /\ exc # None /\ NoLeafMatches =>
        /\ calls = <<>>
        /\ matched = None
        /\ escaped = exc
        /\ heap = pre

\* C9: when the handler raises the object it was given, E itself leaves
\* the scope, as it was, and no group is built around it.
C9_BareReRaise ==
    ( /\ phase = "catch"
      /\ calls # <<>>
      /\ calls[1].raised = matched )
        => /\ escaped = exc
           /\ InputUntouched
           /\ \A x \in 1..Len(heap.objs) :
                 Fresh(x) =>
                     heap.objs[x].message \notin {"caught type", "caught tuple"}

\* The handler raised the clone it was given, which holds a part of E.
C9_Witness ==
    /\ phase = "catch"
    /\ calls # <<>>
    /\ calls[1].raised = matched
    /\ matched # exc
    /\ rest # None
    /\ escaped = exc

====
